---- MODULE Spec2Model ----
(***************************************************************************)
(* The cat CRUD engine of express-zod-api-poc: the in-memory repository    *)
(* (InMemoryCatRepository), the service above it (CatServiceImpl) and the   *)
(* error mapping of the create and update endpoint handlers.                *)
(*                                                                         *)
(* Strings are sequences of one-character strings, so that toLowerCase,    *)
(* trim, length and the name pattern are computed character by character.  *)
(* An object (a partial update, a query) is a function from field names to *)
(* values; an absent field is a name outside its DOMAIN.  A nullable value *)
(* is a sequence of length 0 (null) or 1.                                  *)
(*                                                                         *)
(* Every service method is an async function: it runs synchronously up to  *)
(* its first await, is suspended there, and is resumed later.  A call is a *)
(* slot of `calls` whose pc names the await it is suspended at.            *)
(***************************************************************************)
EXTENDS Integers, Sequences, FiniteSets, TLC

VARIABLES
    cats,     \* InMemoryCatRepository.cats: the Map, in insertion order
    nextId,   \* number of uuids generated so far
    nextRef,  \* number of objects allocated so far (object identities)
    clock,    \* last reading of the system clock
    calls,    \* the service calls, one per slot: suspended, or finished
    started,  \* number of service calls started so far
    issued,   \* the ids create has assigned so far, in order
    requests  \* per slot: the input of the HTTP request whose handler made the call

vars == <<cats, nextId, nextRef, clock, calls, started, issued, requests>>

(***************************************************************************)
(* Bounds of the model.                                                    *)
(***************************************************************************)
MaxCalls == 3
MaxClock == 1
MaxInFlight == 2
SeedSize == 10
MaxRequests == 2

(***************************************************************************)
(* CAT_CONSTANTS and CAT_HTTP_STATUS.                                      *)
(***************************************************************************)
NameMinLength == 1
NameMaxLength == 50
AgeMin == 0
AgeMax == 30
BreedMinLength == 1
BreedMaxLength == 30
ColorMinLength == 1
ColorMaxLength == 20
DefaultPage == 1
DefaultLimit == 10
MaxLimit == 100
BadRequest == 400
NotFound == 404
Conflict == 409

(***************************************************************************)
(* Strings.                                                                *)
(***************************************************************************)
UpperCase ==
    << "A", "B", "C", "D", "E", "F", "G", "H", "I", "J", "K", "L", "M",
       "N", "O", "P", "Q", "R", "S", "T", "U", "V", "W", "X", "Y", "Z" >>

LowerCase ==
    << "a", "b", "c", "d", "e", "f", "g", "h", "i", "j", "k", "l", "m",
       "n", "o", "p", "q", "r", "s", "t", "u", "v", "w", "x", "y", "z" >>

Whitespace == {" ", "\t", "\n"}

Letters == {UpperCase[i] : i \in DOMAIN UpperCase} \cup {LowerCase[i] : i \in DOMAIN LowerCase}

Rep(c, n) == [i \in 1..n |-> c]

ToLowerChar(c) ==
    IF \E i \in DOMAIN UpperCase : UpperCase[i] = c
    THEN LowerCase[CHOOSE i \in DOMAIN UpperCase : UpperCase[i] = c]
    ELSE c

\* String.prototype.toLowerCase
ToLowerCase(s) == [i \in 1..Len(s) |-> ToLowerChar(s[i])]

\* String.prototype.trim
Trim(s) ==
    LET keep == {i \in 1..Len(s) : s[i] \notin Whitespace}
    IN  IF keep = {} THEN <<>>
        ELSE LET lo == CHOOSE i \in keep : \A j \in keep : i <= j
                 hi == CHOOSE i \in keep : \A j \in keep : j <= i
             IN  SubSeq(s, lo, hi)

\* String.prototype.includes
Includes(s, sub) ==
    \E i \in 0..(Len(s) - Len(sub)) : SubSeq(s, i + 1, i + Len(sub)) = sub

\* CAT_NAME_REGEX.test: /^[a-zA-Z\s\-']+$/
CatNameRegexTest(s) ==
    /\ Len(s) >= 1
    /\ \A i \in 1..Len(s) : s[i] \in Letters \cup Whitespace \cup {"-", "'"}

(***************************************************************************)
(* Numbers.  An age is the number n + 1/2 (half) or n: enough to tell an   *)
(* integer from a non-integer in the comparisons of validateCatAge.        *)
(***************************************************************************)
Num(n) == [n |-> n, half |-> FALSE]
NumAndHalf(n) == [n |-> n, half |-> TRUE]
NumLess(x, k) == x.n < k
NumGreater(x, k) == x.n > k \/ (x.n = k /\ x.half)
NumberIsInteger(x) == ~x.half

(***************************************************************************)
(* Objects.                                                                *)
(***************************************************************************)
Has(obj, k) == k \in DOMAIN obj

\* { ...a, ...b }
Spread(a, b) ==
    [k \in DOMAIN a \cup DOMAIN b |-> IF k \in DOMAIN b THEN b[k] ELSE a[k]]

Null == <<>>
Some(v) == <<v>>

Ok == "ok"

(***************************************************************************)
(* CatServiceImpl: the validators.  Each returns Ok or the message of the  *)
(* CatValidationError it throws.                                           *)
(***************************************************************************)
validateCatName(name) ==
    IF Len(name) = 0 \/ Len(Trim(name)) = 0 THEN "Cat name is required"
    ELSE IF Len(name) > NameMaxLength THEN "Cat name must be 50 characters or less"
    ELSE IF ~CatNameRegexTest(name) THEN "Cat name contains invalid characters"
    ELSE Ok

\* validateCatAge with the upper bound exclusive
validateCatAgeBelowMax(age) ==
    IF NumLess(age, AgeMin) THEN "Cat age cannot be negative"
    ELSE IF ~NumLess(age, AgeMax) THEN "Cat age cannot exceed 30 years"
    ELSE IF ~NumberIsInteger(age) THEN "Cat age must be an integer"
    ELSE Ok

validateCatAge(age) ==
    IF NumLess(age, AgeMin) THEN "Cat age cannot be negative"
    ELSE IF NumGreater(age, AgeMax) THEN "Cat age cannot exceed 30 years"
    ELSE IF ~NumberIsInteger(age) THEN "Cat age must be an integer"
    ELSE Ok

validateCatBreed(breed) ==
    IF Len(breed) = 0 \/ Len(Trim(breed)) = 0 THEN "Cat breed is required"
    ELSE IF Len(breed) > BreedMaxLength THEN "Cat breed must be 30 characters or less"
    ELSE Ok

validateCatColor(color) ==
    IF Len(color) = 0 \/ Len(Trim(color)) = 0 THEN "Cat color is required"
    ELSE IF Len(color) > ColorMaxLength THEN "Cat color must be 20 characters or less"
    ELSE Ok

\* the first validator that throws decides
validateCatData(data) ==
    IF validateCatName(data.name) # Ok THEN validateCatName(data.name)
    ELSE IF validateCatAge(data.age) # Ok THEN validateCatAge(data.age)
    ELSE IF validateCatBreed(data.breed) # Ok THEN validateCatBreed(data.breed)
    ELSE validateCatColor(data.color)

\* the fields the message of a CatValidationError names
FieldsNamed(message) ==
    {f \in {"name", "age", "breed", "color"} :
        message \in
            (CASE f = "name" -> {"Cat name is required",
                                 "Cat name must be 50 characters or less",
                                 "Cat name contains invalid characters"}
               [] f = "age" -> {"Cat age cannot be negative",
                                "Cat age cannot exceed 30 years",
                                "Cat age must be an integer"}
               [] f = "breed" -> {"Cat breed is required",
                                  "Cat breed must be 30 characters or less"}
               [] f = "color" -> {"Cat color is required",
                                  "Cat color must be 20 characters or less"})}

\* the validation updateCat runs on the partial update
validateUpdate(data) ==
    IF Has(data, "name") /\ validateCatName(data.name) # Ok THEN validateCatName(data.name)
    ELSE IF Has(data, "age") /\ validateCatAge(data.age) # Ok THEN validateCatAge(data.age)
    ELSE Ok

(***************************************************************************)
(* Number.parseInt(string, 10): leading white space is skipped, then an    *)
(* optional sign, then the longest run of decimal digits is read; what     *)
(* follows the digits is ignored.  The result is NaN when there is no      *)
(* digit to read.                                                          *)
(***************************************************************************)
Digits == <<"0", "1", "2", "3", "4", "5", "6", "7", "8", "9">>

IsDigit(c) == \E i \in DOMAIN Digits : Digits[i] = c

DigitValue(c) == (CHOOSE i \in DOMAIN Digits : Digits[i] = c) - 1

RECURSIVE DigitsValue(_)
DigitsValue(s) ==
    IF Len(s) = 0 THEN 0
    ELSE DigitsValue(SubSeq(s, 1, Len(s) - 1)) * 10 + DigitValue(s[Len(s)])

\* String.prototype.trimStart
TrimStart(s) ==
    LET keep == {i \in 1..Len(s) : s[i] \notin Whitespace}
    IN  IF keep = {} THEN <<>>
        ELSE SubSeq(s, CHOOSE i \in keep : \A j \in keep : i <= j, Len(s))

NaN == Null

ParseInt(str) ==
    LET t == TrimStart(str)
        signed == Len(t) > 0 /\ t[1] \in {"+", "-"}
        sign == IF Len(t) > 0 /\ t[1] = "-" THEN 0 - 1 ELSE 1
        rest == IF signed THEN SubSeq(t, 2, Len(t)) ELSE t
        runs == {k \in 0..Len(rest) : \A i \in 1..k : IsDigit(rest[i])}
        end == CHOOSE k \in runs : \A j \in runs : j <= k
    IN  IF end = 0 THEN NaN ELSE Some(sign * DigitsValue(SubSeq(rest, 1, end)))

\* Math.ceil(total / limit), total >= 0 and limit >= 1
MathCeilOfQuotient(total, limit) ==
    IF total % limit = 0 THEN total \div limit ELSE (total \div limit) + 1

(***************************************************************************)
(* The zod schemas of the endpoints' inputs.  Each returns the parsed      *)
(* input, or Null when the input is rejected.  The checks of a string run  *)
(* in the order they are chained: min and max see the string as sent, trim *)
(* comes last.  Keys the schema does not name are stripped.                *)
(***************************************************************************)
True == <<"t", "r", "u", "e">>

\* CreateCatSchema with isAdopted optional and no default
CreateCatSchemaParseNoDefault(raw) ==
    IF /\ Has(raw, "name") /\ Has(raw, "age") /\ Has(raw, "breed") /\ Has(raw, "color")
       /\ Len(raw.name) >= NameMinLength /\ Len(raw.name) <= NameMaxLength
       /\ NumberIsInteger(raw.age)
       /\ ~NumLess(raw.age, AgeMin) /\ ~NumGreater(raw.age, AgeMax)
       /\ Len(raw.breed) >= BreedMinLength /\ Len(raw.breed) <= BreedMaxLength
       /\ Len(raw.color) >= ColorMinLength /\ Len(raw.color) <= ColorMaxLength
    THEN Some(Spread([name |-> Trim(raw.name),
                      age |-> raw.age,
                      breed |-> Trim(raw.breed),
                      color |-> Trim(raw.color)],
                     IF Has(raw, "isAdopted") THEN [isAdopted |-> raw.isAdopted] ELSE <<>>))
    ELSE Null

\* CreateCatSchema: CatSchema without id, createdAt, updatedAt
CreateCatSchemaParse(raw) ==
    IF /\ Has(raw, "name") /\ Has(raw, "age") /\ Has(raw, "breed") /\ Has(raw, "color")
       /\ Len(raw.name) >= NameMinLength /\ Len(raw.name) <= NameMaxLength
       /\ NumberIsInteger(raw.age)
       /\ ~NumLess(raw.age, AgeMin) /\ ~NumGreater(raw.age, AgeMax)
       /\ Len(raw.breed) >= BreedMinLength /\ Len(raw.breed) <= BreedMaxLength
       /\ Len(raw.color) >= ColorMinLength /\ Len(raw.color) <= ColorMaxLength
    THEN Some([name |-> Trim(raw.name),
               age |-> raw.age,
               breed |-> Trim(raw.breed),
               color |-> Trim(raw.color),
               isAdopted |-> IF Has(raw, "isAdopted") THEN raw.isAdopted ELSE FALSE])
    ELSE Null

\* CatQuerySchema with a limit refined as the page is: positive, no maximum
CatQuerySchemaParseNoMaxLimit(raw) ==
    LET page == IF Has(raw, "page") /\ Len(raw.page) > 0
                THEN ParseInt(raw.page) ELSE Some(DefaultPage)
        limit == IF Has(raw, "limit") /\ Len(raw.limit) > 0
                 THEN ParseInt(raw.limit) ELSE Some(DefaultLimit)
        isAdopted == Has(raw, "isAdopted") /\ raw.isAdopted = True
    IN  IF /\ page # NaN /\ page[1] > 0
           /\ limit # NaN /\ limit[1] > 0
        THEN Some(Spread([page |-> page[1], limit |-> limit[1], isAdopted |-> isAdopted],
                         IF Has(raw, "breed") THEN [breed |-> raw.breed] ELSE <<>>))
        ELSE Null

\* CatQuerySchema.  page and limit: the transform, then the refinement.
\* breed: kept when sent.  isAdopted: the outer optional() passes an absent
\* value on to the transform, whose input is optional itself, so an absent
\* isAdopted is transformed as well (undefined === "true" is false).
CatQuerySchemaParse(raw) ==
    LET page == IF Has(raw, "page") /\ Len(raw.page) > 0
                THEN ParseInt(raw.page) ELSE Some(DefaultPage)
        limit == IF Has(raw, "limit") /\ Len(raw.limit) > 0
                 THEN ParseInt(raw.limit) ELSE Some(DefaultLimit)
        isAdopted == Has(raw, "isAdopted") /\ raw.isAdopted = True
    IN  IF /\ page # NaN /\ page[1] > 0
           /\ limit # NaN /\ limit[1] > 0 /\ limit[1] <= MaxLimit
        THEN Some(Spread([page |-> page[1], limit |-> limit[1], isAdopted |-> isAdopted],
                         IF Has(raw, "breed") THEN [breed |-> raw.breed] ELSE <<>>))
        ELSE Null

(***************************************************************************)
(* InMemoryCatRepository.  An entry of cats is a key of the Map with the   *)
(* object stored under it: ref is the object's identity, val its fields.   *)
(***************************************************************************)
Entry(key, ref, val) == [key |-> key, ref |-> ref, val |-> val]

Keys(store) == {store[i].key : i \in 1..Len(store)}

IndexOf(store, id) == CHOOSE i \in 1..Len(store) : store[i].key = id

\* Array.prototype.slice(start, end), 0 <= start <= end
Slice(s, start, end) ==
    SubSeq(s, start + 1, IF end < Len(s) THEN end ELSE Len(s))

\* ApplyFilters that compares the breed as it is written
ApplyFiltersCaseSensitive(store, query) ==
    LET byBreed(e) == Includes(e.val.breed, query.breed)
        byAdopted(e) == e.val.isAdopted = query.isAdopted
        f1 == IF Has(query, "breed") /\ Len(query.breed) > 0
              THEN SelectSeq(store, byBreed) ELSE store
    IN  IF Has(query, "isAdopted") THEN SelectSeq(f1, byAdopted) ELSE f1

\* the filters of findAll: breed when it is truthy, isAdopted when it is defined
ApplyFilters(store, query) ==
    LET byBreed(e) == Includes(ToLowerCase(e.val.breed), ToLowerCase(query.breed))
        byAdopted(e) == e.val.isAdopted = query.isAdopted
        f1 == IF Has(query, "breed") /\ Len(query.breed) > 0
              THEN SelectSeq(store, byBreed) ELSE store
    IN  IF Has(query, "isAdopted") THEN SelectSeq(f1, byAdopted) ELSE f1

\* findAll with the page counted from 0
findAllPageFromZero(store, query) ==
    LET filteredCats == ApplyFilters(store, query)
        page == IF Has(query, "page") THEN query.page ELSE 1
        limit == IF Has(query, "limit") THEN query.limit ELSE 10
        startIndex == page * limit
        endIndex == startIndex + limit
    IN  Slice(filteredCats, startIndex, endIndex)

\* findAll(query): the objects of one page
findAll(store, query) ==
    LET filteredCats == ApplyFilters(store, query)
        page == IF Has(query, "page") THEN query.page ELSE 1
        limit == IF Has(query, "limit") THEN query.limit ELSE 10
        startIndex == (page - 1) * limit
        endIndex == startIndex + limit
    IN  Slice(filteredCats, startIndex, endIndex)

\* count that counts the cats of the requested page
countOfPage(store, query) == Len(findAll(store, query))

\* count(query): the filters again, then the length
count(store, query) ==
    LET byBreed(e) == Includes(ToLowerCase(e.val.breed), ToLowerCase(query.breed))
        byAdopted(e) == e.val.isAdopted = query.isAdopted
        f1 == IF Has(query, "breed") /\ Len(query.breed) > 0
              THEN SelectSeq(store, byBreed) ELSE store
        filteredCats == IF Has(query, "isAdopted") THEN SelectSeq(f1, byAdopted) ELSE f1
    IN  Len(filteredCats)

\* findAll(): called without a query
NoQuery == <<>>

\* findById(id): the stored object, or null
findById(store, id) ==
    IF id \in Keys(store) THEN Some(store[IndexOf(store, id)]) ELSE Null

\* uuidv4(): a value no earlier call returned
uuidv4(n) == n + 1

\* RepoCreate with the id taken from the size of the Map
RepoCreateIdFromSize(store, n, ref, catData, t1, t2) ==
    LET id == Len(store) + 1
        cat == Spread(Spread([id |-> id], catData), [createdAt |-> t1, updatedAt |-> t2])
    IN  Append(store, Entry(cat.id, ref, cat))

\* create(catData) at clock readings t1, t2: the Map afterwards
RepoCreate(store, n, ref, catData, t1, t2) ==
    LET id == uuidv4(n)
        cat == Spread(Spread([id |-> id], catData), [createdAt |-> t1, updatedAt |-> t2])
    IN  Append(store, Entry(cat.id, ref, cat))

\* RepoUpdate that forces the id before the updates are spread, not after
RepoUpdateIdOverwritten(store, id, ref, updates, t) ==
    LET i == IndexOf(store, id)
        updatedCat == Spread(Spread(Spread(store[i].val, [id |-> id]), updates), [updatedAt |-> t])
    IN  [store EXCEPT ![i] = Entry(id, ref, updatedCat)]

\* RepoUpdate with the spread the other way round: the stored fields win
RepoUpdateKeepsExisting(store, id, ref, updates, t) ==
    LET i == IndexOf(store, id)
        updatedCat == Spread(Spread(updates, store[i].val), [id |-> id, updatedAt |-> t])
    IN  [store EXCEPT ![i] = Entry(id, ref, updatedCat)]

\* update(id, updates) of a present id at clock reading t: Map.set keeps the key's place
RepoUpdate(store, id, ref, updates, t) ==
    LET i == IndexOf(store, id)
        updatedCat == Spread(Spread(store[i].val, updates), [id |-> id, updatedAt |-> t])
    IN  [store EXCEPT ![i] = Entry(id, ref, updatedCat)]

\* delete(id): Map.delete
RepoDelete(store, id) ==
    LET notId(e) == e.key # id
    IN  SelectSeq(store, notId)

(***************************************************************************)
(* The endpoint handlers' catch blocks: the status of the HTTP error the   *)
(* handler creates, or Null when it creates none (success, or an error it  *)
(* throws again as it is).                                                 *)
(***************************************************************************)
createCatHandlerStatus(err) ==
    IF err = "CatValidationError" THEN Some(BadRequest)
    ELSE IF err = "CatConflictError" THEN Some(Conflict)
    ELSE Null

updateCatHandlerStatus(err, ret) ==
    IF err = "none" THEN (IF ret = Null THEN Some(NotFound) ELSE Null)
    ELSE IF err = "CatNotFoundError" THEN Some(NotFound)
    ELSE IF err = "CatValidationError" THEN Some(BadRequest)
    ELSE IF err = "CatConflictError" THEN Some(Conflict)
    ELSE Null

(***************************************************************************)
(* Service calls.  A slot holds one call of a CatServiceImpl method: its   *)
(* arguments (id, data), the locals it keeps across an await (found: the   *)
(* result of findById, or of count; scan: the result of findAll), and once *)
(* it is done                                                              *)
(* its outcome: err is the class of the error thrown ("none": it returned  *)
(* ret), cause the throw statement that threw, wrote whether it called     *)
(* a writing repository method.                                            *)
(***************************************************************************)
Slots == 1..MaxInFlight

Slot(pc, op, id, data, found, scan, err, cause, ret, wrote) ==
    [pc |-> pc, op |-> op, id |-> id, data |-> data, found |-> found, scan |-> scan,
     err |-> err, cause |-> cause, ret |-> ret, wrote |-> wrote]

IdleSlot == Slot("idle", "none", 0, <<>>, Null, <<>>, "none", "none", Null, FALSE)

Suspended(op, pc, id, data, found, scan) ==
    Slot(pc, op, id, data, found, scan, "none", "none", Null, FALSE)

Thrown(op, id, data, err, cause) ==
    Slot("done", op, id, data, Null, <<>>, err, cause, Null, FALSE)

Returned(op, id, data, ret, wrote) ==
    Slot("done", op, id, data, Null, <<>>, "none", "none", ret, wrote)

Free(s) == calls[s].pc \in {"idle", "done"}

InFlight == {s \in Slots : ~Free(s)}

\* a new call takes the lowest free slot, while fewer than limit calls are in flight
CanStart(s, limit) ==
    /\ started < MaxCalls
    /\ Cardinality(InFlight) < limit
    /\ Free(s)
    /\ \A r \in Slots : Free(r) => s <= r

\* cat.name.toLowerCase() === name.toLowerCase() for some cat of the scan
NameExists(scan, name) ==
    \E i \in 1..Len(scan) : ToLowerCase(scan[i].val.name) = ToLowerCase(name)

\* the same, for the cats whose id is not the updated one
NameExistsExcept(scan, name, id) ==
    \E i \in 1..Len(scan) :
        scan[i].val.id # id /\ ToLowerCase(scan[i].val.name) = ToLowerCase(name)

\* createCat up to its await: validateCatData, then findAll()
StartCreate(s, data, limit) ==
    /\ CanStart(s, limit)
    /\ started' = started + 1
    /\ calls' = [calls EXCEPT ![s] =
            IF validateCatData(data) # Ok
            THEN Thrown("createCat", 0, data, "CatValidationError", "invalid")
            ELSE Suspended("createCat", "create_await_findAll", 0, data, Null,
                           findAll(cats, NoQuery))]
    /\ UNCHANGED <<cats, nextId, nextRef, clock, issued>>

\* CreateResume that calls create(data) before the name check
CreateResumeWriteFirst(s) ==
    /\ calls[s].pc = "create_await_findAll"
    /\ \E t2 \in {t \in {clock, clock + 1} : t <= MaxClock} :
           LET store == RepoCreate(cats, nextId, nextRef + 1, calls[s].data, clock, t2)
               cat == store[Len(store)]
           IN  /\ cats' = store
               /\ nextId' = nextId + 1
               /\ nextRef' = nextRef + 1
               /\ clock' = t2
               /\ issued' = Append(issued, cat.val.id)
               /\ calls' = [calls EXCEPT ![s] =
                       IF NameExists(calls[s].scan, calls[s].data.name)
                       THEN Thrown("createCat", 0, calls[s].data, "CatValidationError", "duplicate")
                       ELSE Returned("createCat", cat.val.id, calls[s].data, Some(cat), TRUE)]
    /\ UNCHANGED started

\* createCat after its await: the name check, then create(data)
CreateResume(s) ==
    /\ calls[s].pc = "create_await_findAll"
    /\ IF NameExists(calls[s].scan, calls[s].data.name)
       THEN /\ calls' = [calls EXCEPT ![s] =
                    Thrown("createCat", 0, calls[s].data, "CatValidationError", "duplicate")]
            /\ UNCHANGED <<cats, nextId, nextRef, clock, issued>>
       ELSE \E t2 \in {t \in {clock, clock + 1} : t <= MaxClock} :
                LET store == RepoCreate(cats, nextId, nextRef + 1, calls[s].data, clock, t2)
                    cat == store[Len(store)]
                IN  /\ cats' = store
                    /\ nextId' = nextId + 1
                    /\ nextRef' = nextRef + 1
                    /\ clock' = t2
                    /\ issued' = Append(issued, cat.val.id)
                    /\ calls' = [calls EXCEPT ![s] =
                            Returned("createCat", cat.val.id, calls[s].data, Some(cat), TRUE)]
    /\ UNCHANGED started

\* updateCat up to its first await: findById(id)
StartUpdate(s, id, data, limit) ==
    /\ CanStart(s, limit)
    /\ started' = started + 1
    /\ calls' = [calls EXCEPT ![s] =
            Suspended("updateCat", "update_await_findById", id, data, findById(cats, id), <<>>)]
    /\ UNCHANGED <<cats, nextId, nextRef, clock, issued>>

\* DoUpdate that writes the cat found by the existence check back when the id is gone
DoUpdateUpsert(s) ==
    LET base == IF calls[s].id \in Keys(cats) THEN cats ELSE Append(cats, calls[s].found[1])
        store == RepoUpdate(base, calls[s].id, nextRef + 1, calls[s].data, clock)
    IN  /\ cats' = store
        /\ nextRef' = nextRef + 1
        /\ calls' = [calls EXCEPT ![s] =
                Returned("updateCat", calls[s].id, calls[s].data,
                         Some(store[IndexOf(store, calls[s].id)]), TRUE)]

\* return catRepository.update(id, data): null when the id is gone
DoUpdate(s) ==
    IF calls[s].id \in Keys(cats)
    THEN LET store == RepoUpdate(cats, calls[s].id, nextRef + 1, calls[s].data, clock)
         IN  /\ cats' = store
             /\ nextRef' = nextRef + 1
             /\ calls' = [calls EXCEPT ![s] =
                     Returned("updateCat", calls[s].id, calls[s].data,
                              Some(store[IndexOf(store, calls[s].id)]), TRUE)]
    ELSE /\ calls' = [calls EXCEPT ![s] =
                 Returned("updateCat", calls[s].id, calls[s].data, Null, TRUE)]
         /\ UNCHANGED <<cats, nextRef>>

\* updateCat after findById: not found, validation, then findAll() or update
UpdateResume(s) ==
    /\ calls[s].pc = "update_await_findById"
    /\ LET c == calls[s]
       IN  IF c.found = Null
           THEN /\ calls' = [calls EXCEPT ![s] =
                        Thrown("updateCat", c.id, c.data, "CatNotFoundError", "missing")]
                /\ UNCHANGED <<cats, nextRef>>
           ELSE IF validateUpdate(c.data) # Ok
           THEN /\ calls' = [calls EXCEPT ![s] =
                        Thrown("updateCat", c.id, c.data, "CatValidationError", "invalid")]
                /\ UNCHANGED <<cats, nextRef>>
           ELSE IF /\ Has(c.data, "name")
                   /\ Len(c.data.name) > 0
                   /\ c.data.name # c.found[1].val.name
           THEN /\ calls' = [calls EXCEPT ![s] =
                        Suspended("updateCat", "update_await_findAll", c.id, c.data, c.found,
                                  findAll(cats, NoQuery))]
                /\ UNCHANGED <<cats, nextRef>>
           ELSE DoUpdate(s)
    /\ UNCHANGED <<nextId, clock, started, issued>>

\* updateCat after findAll: the name check, then update
UpdateResumeScan(s) ==
    /\ calls[s].pc = "update_await_findAll"
    /\ LET c == calls[s]
       IN  IF NameExistsExcept(c.scan, c.data.name, c.id)
           THEN /\ calls' = [calls EXCEPT ![s] =
                        Thrown("updateCat", c.id, c.data, "CatValidationError", "duplicate")]
                /\ UNCHANGED <<cats, nextRef>>
           ELSE DoUpdate(s)
    /\ UNCHANGED <<nextId, clock, started, issued>>

\* deleteCat up to its await: findById(id)
StartDelete(s, id, limit) ==
    /\ CanStart(s, limit)
    /\ started' = started + 1
    /\ calls' = [calls EXCEPT ![s] =
            Suspended("deleteCat", "delete_await_findById", id, <<>>, findById(cats, id), <<>>)]
    /\ UNCHANGED <<cats, nextId, nextRef, clock, issued>>

\* DeleteResume that returns true whatever delete(id) returned
DeleteResumeReturnsTrue(s) ==
    /\ calls[s].pc = "delete_await_findById"
    /\ LET c == calls[s]
       IN  IF c.found = Null
           THEN /\ calls' = [calls EXCEPT ![s] =
                        Thrown("deleteCat", c.id, <<>>, "CatNotFoundError", "missing")]
                /\ UNCHANGED cats
           ELSE /\ cats' = RepoDelete(cats, c.id)
                /\ calls' = [calls EXCEPT ![s] =
                        Returned("deleteCat", c.id, <<>>, Some(TRUE), TRUE)]
    /\ UNCHANGED <<nextId, nextRef, clock, started, issued>>

\* DeleteResume without the existence check: return catRepository.delete(id)
DeleteResumeNoCheck(s) ==
    /\ calls[s].pc = "delete_await_findById"
    /\ LET c == calls[s]
       IN  /\ cats' = RepoDelete(cats, c.id)
           /\ calls' = [calls EXCEPT ![s] =
                   Returned("deleteCat", c.id, <<>>, Some(c.id \in Keys(cats)), TRUE)]
    /\ UNCHANGED <<nextId, nextRef, clock, started, issued>>

\* deleteCat after findById: not found, or delete(id)
DeleteResume(s) ==
    /\ calls[s].pc = "delete_await_findById"
    /\ LET c == calls[s]
       IN  IF c.found = Null
           THEN /\ calls' = [calls EXCEPT ![s] =
                        Thrown("deleteCat", c.id, <<>>, "CatNotFoundError", "missing")]
                /\ UNCHANGED cats
           ELSE /\ cats' = RepoDelete(cats, c.id)
                /\ calls' = [calls EXCEPT ![s] =
                        Returned("deleteCat", c.id, <<>>, Some(c.id \in Keys(cats)), TRUE)]
    /\ UNCHANGED <<nextId, nextRef, clock, started, issued>>

\* getCatById up to its await: findById(id)
StartGetById(s, id, limit) ==
    /\ CanStart(s, limit)
    /\ started' = started + 1
    /\ calls' = [calls EXCEPT ![s] =
            Suspended("getCatById", "get_await_findById", id, <<>>, findById(cats, id), <<>>)]
    /\ UNCHANGED <<cats, nextId, nextRef, clock, issued>>

\* GetByIdResume that throws on a missing cat, as updateCat and deleteCat do
GetByIdResumeThrows(s) ==
    /\ calls[s].pc = "get_await_findById"
    /\ calls' = [calls EXCEPT ![s] =
            IF calls[s].found = Null
            THEN Thrown("getCatById", calls[s].id, <<>>, "CatNotFoundError", "missing")
            ELSE Returned("getCatById", calls[s].id, <<>>, calls[s].found, FALSE)]
    /\ UNCHANGED <<cats, nextId, nextRef, clock, started, issued>>

\* getCatById after its await: return cat
GetByIdResume(s) ==
    /\ calls[s].pc = "get_await_findById"
    /\ calls' = [calls EXCEPT ![s] =
            Returned("getCatById", calls[s].id, <<>>, calls[s].found, FALSE)]
    /\ UNCHANGED <<cats, nextId, nextRef, clock, started, issued>>

\* getAllCats up to its first await: findAll(query)
StartGetAll(s, query, limit) ==
    /\ CanStart(s, limit)
    /\ started' = started + 1
    /\ calls' = [calls EXCEPT ![s] =
            Suspended("getAllCats", "getAll_await_findAll", 0, query, Null,
                      findAll(cats, query))]
    /\ UNCHANGED <<cats, nextId, nextRef, clock, issued>>

\* getAllCats after findAll, up to its second await: count(query)
GetAllResume(s) ==
    /\ calls[s].pc = "getAll_await_findAll"
    /\ calls' = [calls EXCEPT ![s] =
            Suspended("getAllCats", "getAll_await_count", 0, calls[s].data,
                      Some(count(cats, calls[s].data)), calls[s].scan)]
    /\ UNCHANGED <<cats, nextId, nextRef, clock, started, issued>>

\* getAllCats after count: page, limit, totalPages, and the result
GetAllResumeCount(s) ==
    /\ calls[s].pc = "getAll_await_count"
    /\ LET query == calls[s].data
           total == calls[s].found[1]
           page == IF Has(query, "page") THEN query.page ELSE 1
           limit == IF Has(query, "limit") THEN query.limit ELSE 10
           totalPages == MathCeilOfQuotient(total, limit)
       IN  calls' = [calls EXCEPT ![s] =
               Returned("getAllCats", 0, query,
                        Some([cats |-> calls[s].scan,
                              pagination |-> [page |-> page, limit |-> limit,
                                              total |-> total, totalPages |-> totalPages]]),
                        FALSE)]
    /\ UNCHANGED <<cats, nextId, nextRef, clock, started, issued>>

(***************************************************************************)
(* The endpoints.  The framework parses the request's input with the       *)
(* endpoint's input schema: a rejected input is answered without the       *)
(* handler running; otherwise the handler calls the service with the       *)
(* parsed input.                                                           *)
(***************************************************************************)
\* POST /cats: createCatEndpoint
createCatEndpoint(s, raw, limit) ==
    /\ requests' = [requests EXCEPT ![s] = Some(raw)]
    /\ IF CreateCatSchemaParse(raw) = Null
       THEN /\ CanStart(s, limit)
            /\ started' = started + 1
            /\ calls' = [calls EXCEPT ![s] =
                    Thrown("createCatEndpoint", 0, raw, "InputValidationError", "schema")]
            /\ UNCHANGED <<cats, nextId, nextRef, clock, issued>>
       ELSE StartCreate(s, CreateCatSchemaParse(raw)[1], limit)

\* GET /cats: getAllCatsEndpoint
getAllCatsEndpoint(s, raw, limit) ==
    /\ requests' = [requests EXCEPT ![s] = Some(raw)]
    /\ IF CatQuerySchemaParse(raw) = Null
       THEN /\ CanStart(s, limit)
            /\ started' = started + 1
            /\ calls' = [calls EXCEPT ![s] =
                    Thrown("getAllCatsEndpoint", 0, raw, "InputValidationError", "schema")]
            /\ UNCHANGED <<cats, nextId, nextRef, clock, issued>>
       ELSE StartGetAll(s, CatQuerySchemaParse(raw)[1], limit)

\* time passes: the next new Date() reads a later time
Tick ==
    /\ clock < MaxClock
    /\ clock' = clock + 1
    /\ UNCHANGED <<cats, nextId, nextRef, calls, started, issued>>

(***************************************************************************)
(* The caller keeps the object a call returned and assigns to one of its   *)
(* fields.  create, findById and update return the object they stored in   *)
(* (or read from) the Map, so the assignment is to the stored object while *)
(* the Map still holds it under some key.                                  *)
(***************************************************************************)
AssignToReturned(s, field, value) ==
    /\ InFlight = {}
    /\ calls[s].pc = "done"
    /\ calls[s].op \in {"createCat", "updateCat", "getCatById"}
    /\ calls[s].ret # Null
    /\ cats' = [i \in 1..Len(cats) |->
                   IF cats[i].ref = calls[s].ret[1].ref
                   THEN [cats[i] EXCEPT !.val = Spread(cats[i].val, field :> value)]
                   ELSE cats[i]]
    /\ UNCHANGED <<nextId, nextRef, clock, calls, started, issued>>

(***************************************************************************)
(* Inputs.                                                                 *)
(***************************************************************************)
Tom == <<"T", "o", "m">>
TomLower == <<"t", "o", "m">>
Rex == <<"R", "e", "x">>
Persian == <<"P", "e", "r", "s", "i", "a", "n">>
White == <<"W", "h", "i", "t", "e">>

\* a clock value before every reading, and one after every reading
Past == 0 - 1
Future == MaxClock + 1

BaseCat == [name |-> Tom, age |-> Num(3), breed |-> Persian, color |-> White, isAdopted |-> FALSE]

NameInputs ==
    {Tom, TomLower, Rex, <<>>, <<" ">>, <<"T", "0">>,
     Rep("a", NameMaxLength), Rep("a", NameMaxLength + 1)}

AgeInputs == {Num(AgeMin - 1), Num(AgeMin), Num(AgeMax), Num(AgeMax + 1), NumAndHalf(1)}

BreedInputs == {<<>>, <<" ">>, Rep("b", BreedMaxLength), Rep("b", BreedMaxLength + 1)}

ColorInputs == {<<>>, Rep("c", ColorMaxLength), Rep("c", ColorMaxLength + 1)}

CreateInputs ==
    {[BaseCat EXCEPT !.name = n] : n \in NameInputs}
    \cup {[BaseCat EXCEPT !.age = a] : a \in AgeInputs}
    \cup {[BaseCat EXCEPT !.breed = b] : b \in BreedInputs}
    \cup {[BaseCat EXCEPT !.color = c] : c \in ColorInputs}
    \cup {[BaseCat EXCEPT !.name = Rex, !.isAdopted = TRUE]}
    \cup {Spread([BaseCat EXCEPT !.name = Rex], [createdAt |-> Future, updatedAt |-> Past])}

UpdateInputs ==
    {[name |-> n] : n \in NameInputs}
    \cup {[age |-> a] : a \in AgeInputs}
    \cup {[breed |-> b] : b \in BreedInputs}
    \cup {[color |-> c] : c \in ColorInputs}
    \cup {[isAdopted |-> v] : v \in BOOLEAN}
    \cup {[createdAt |-> t] : t \in {Past, Future}}
    \cup {[updatedAt |-> Past], [name |-> Rex, breed |-> <<>>], <<>>}

\* the ids create can have assigned, and one it has not
IdInputs == 1..(MaxCalls + 1)

\* a few names, for the runs with calls in flight together
FewCreateInputs == {[BaseCat EXCEPT !.name = n] : n \in {Tom, TomLower, Rex}}
FewUpdateInputs == {[name |-> TomLower], [name |-> Rex], [isAdopted |-> TRUE]}
FewIdInputs == 1..2

\* inputs against the seeded store
SeededCreateInputs == {[BaseCat EXCEPT !.name = n] : n \in {Tom, TomLower, <<"A">>}}
SeededUpdateInputs ==
    {[name |-> TomLower], [name |-> <<"A">>], [isAdopted |-> TRUE], [id |-> 2, color |-> White]}
SeededIdInputs == {1, SeedSize + 1, SeedSize + 2}

Siamese == <<"S", "i", "a", "m", "e", "s", "e">>

\* the body of a POST /cats request: isAdopted may be left out
BaseBody == [name |-> Tom, age |-> Num(3), breed |-> Persian, color |-> White]

BodyInputs ==
    {BaseBody,
     Spread(BaseBody, [isAdopted |-> TRUE]),
     Spread(BaseBody, [isAdopted |-> FALSE]),
     [BaseBody EXCEPT !.name = <<" ">> \o Rex \o <<" ">>],
     [BaseBody EXCEPT !.name = Rex, !.breed = Siamese \o <<" ">>, !.color = <<" ">> \o White],
     [BaseBody EXCEPT !.name = <<" ">>],
     [BaseBody EXCEPT !.name = <<>>],
     [BaseBody EXCEPT !.name = Rep("a", NameMaxLength) \o <<" ">>],
     [BaseBody EXCEPT !.age = Num(AgeMax + 1)],
     [BaseBody EXCEPT !.age = NumAndHalf(1)],
     [BaseBody EXCEPT !.breed = <<>>],
     [BaseBody EXCEPT !.name = <<"T", "0">>, !.breed = <<" ">>],
     Spread([BaseBody EXCEPT !.name = Rex], [createdAt |-> Future])}

\* queries of getAllCats called directly: page >= 1, limit from 1 to MaxLimit
ListPages == {1, 2, 4}
ListLimits == {1, 3, DefaultLimit, MaxLimit}

ListFilters ==
    {<<>>,
     [breed |-> <<"p", "E", "r">>],
     [breed |-> <<"s", "i", "a">>],
     [breed |-> <<>>],
     [isAdopted |-> TRUE],
     [isAdopted |-> FALSE],
     [breed |-> <<"s", "i", "a">>, isAdopted |-> TRUE]}

ListQueries ==
    ListFilters
    \cup {Spread(f, [page |-> p, limit |-> l]) : f \in ListFilters, p \in ListPages, l \in ListLimits}
    \cup {[page |-> 2], [limit |-> 3]}

\* the query string of a GET /cats request: every value is a string
QueryInputs ==
    {<<>>,
     [page |-> <<"2">>],
     [limit |-> <<"3">>],
     [page |-> <<"2">>, limit |-> <<"3">>, breed |-> <<"p", "e", "r">>,
      isAdopted |-> <<"f", "a", "l", "s", "e">>],
     [page |-> <<>>, limit |-> <<>>],
     [page |-> <<"0">>],
     [page |-> <<"-", "1">>],
     [page |-> <<"a", "b", "c">>],
     [page |-> <<"1", ".", "5">>],
     [page |-> <<"2", "a", "b", "c">>],
     [page |-> <<" ", "+", "2">>],
     [page |-> <<"0", "0", "3">>],
     [limit |-> <<"0">>],
     [limit |-> <<"-", "5">>],
     [limit |-> <<"1">>],
     [limit |-> <<"1", "0", "0">>],
     [limit |-> <<"1", "0", "1">>],
     [limit |-> <<"x">>],
     [limit |-> <<"2", ".", "9">>],
     [isAdopted |-> True]}

\* calls that change the store under the list requests
ListCreateInputs == {[BaseCat EXCEPT !.name = Rex, !.breed = Siamese, !.isAdopted = TRUE]}
ListUpdateInputs == {[isAdopted |-> TRUE], [breed |-> Siamese]}
ListIdInputs == {2, SeedSize + 1}

\* inputs of the calls in flight together against the seeded store
RaceCreateInputs == {[BaseCat EXCEPT !.name = Tom]}
RaceUpdateInputs == {[isAdopted |-> TRUE], [name |-> Rex]}
RaceIdInputs == {1}
RaceQueries == {NoQuery, [page |-> 2, limit |-> 3], [isAdopted |-> FALSE, limit |-> MaxLimit]}

\* what the caller assigns to a returned object
Assignments == {<<"name", <<>>>>, <<"age", Num(AgeMax + 1)>>, <<"isAdopted", TRUE>>}

(***************************************************************************)
(* Specifications.                                                         *)
(***************************************************************************)
Init ==
    /\ cats = <<>>
    /\ nextId = 0
    /\ nextRef = 0
    /\ clock = 0
    /\ calls = [s \in Slots |-> IdleSlot]
    /\ started = 0
    /\ issued = <<>>
    /\ requests = [s \in Slots |-> Null]

\* the store after createCat of SeedSize cats named a, b, c, ...
RECURSIVE Seed(_)
Seed(n) ==
    IF n = 0 THEN <<>>
    ELSE RepoCreate(Seed(n - 1), n - 1, n, [BaseCat EXCEPT !.name = <<LowerCase[n]>>], 0, 0)

SeededInit ==
    /\ cats = Seed(SeedSize)
    /\ nextId = SeedSize
    /\ nextRef = SeedSize
    /\ clock = 0
    /\ calls = [s \in Slots |-> IdleSlot]
    /\ started = 0
    /\ issued = [i \in 1..SeedSize |-> Seed(SeedSize)[i].key]
    /\ requests = [s \in Slots |-> Null]

\* the call in slot s is made directly, not by the handler of a request
Direct(s) == requests' = [requests EXCEPT ![s] = Null]

Step(limit, creates, updates, ids) ==
    \/ \E s \in Slots, data \in creates : StartCreate(s, data, limit) /\ Direct(s)
    \/ \E s \in Slots : CreateResume(s) /\ UNCHANGED requests
    \/ \E s \in Slots, id \in ids, data \in updates :
          StartUpdate(s, id, data, limit) /\ Direct(s)
    \/ \E s \in Slots : UpdateResume(s) /\ UNCHANGED requests
    \/ \E s \in Slots : UpdateResumeScan(s) /\ UNCHANGED requests
    \/ \E s \in Slots, id \in ids : StartDelete(s, id, limit) /\ Direct(s)
    \/ \E s \in Slots : DeleteResume(s) /\ UNCHANGED requests
    \/ \E s \in Slots, id \in ids : StartGetById(s, id, limit) /\ Direct(s)
    \/ \E s \in Slots : GetByIdResume(s) /\ UNCHANGED requests
    \/ Tick /\ UNCHANGED requests

\* calls one at a time, each run to completion before the next starts
Next == Step(1, CreateInputs, UpdateInputs, IdInputs)

Spec == Init /\ [][Next]_vars

\* calls one at a time against a store of SeedSize cats
SeededNext == Step(1, SeededCreateInputs, SeededUpdateInputs, SeededIdInputs)

SeededSpec == SeededInit /\ [][SeededNext]_vars

\* up to MaxInFlight calls in flight together, resumed in any order
ConcNext == Step(MaxInFlight, FewCreateInputs, FewUpdateInputs, FewIdInputs)

ConcSpec == Init /\ [][ConcNext]_vars

\* calls one at a time, and a caller that assigns to the objects they return
AliasNext ==
    \/ Step(1, FewCreateInputs, FewUpdateInputs, FewIdInputs)
    \/ \E s \in Slots, a \in Assignments :
          AssignToReturned(s, a[1], a[2]) /\ UNCHANGED requests

AliasSpec == Init /\ [][AliasNext]_vars

(***************************************************************************)
(* MIME types (health.controller.ts).  A MIME type is a string; a file     *)
(* extension is a sequence of characters, so that toLowerCase acts on it;  *)
(* undefined is Null.                                                      *)
(***************************************************************************)
TEXT_MIME_TYPES ==
    [plain |-> "text/plain", html |-> "text/html", css |-> "text/css",
     javascript |-> "text/javascript", json |-> "application/json",
     xml |-> "application/xml", csv |-> "text/csv", markdown |-> "text/markdown",
     rtf |-> "text/rtf", yaml |-> "application/x-yaml", typescript |-> "text/typescript",
     jsModule |-> "text/javascript; charset=utf-8",
     tsModule |-> "text/typescript; charset=utf-8"]

APPLICATION_MIME_TYPES ==
    [json |-> "application/json", xml |-> "application/xml", pdf |-> "application/pdf",
     zip |-> "application/zip", gzip |-> "application/gzip", tar |-> "application/x-tar",
     sevenZip |-> "application/x-7z-compressed", rar |-> "application/vnd.rar",
     word |-> "application/vnd.openxmlformats-officedocument.wordprocessingml.document",
     excel |-> "application/vnd.openxmlformats-officedocument.spreadsheetml.sheet",
     powerpoint |-> "application/vnd.openxmlformats-officedocument.presentationml.presentation",
     openDocumentText |-> "application/vnd.oasis.opendocument.text",
     openDocumentSpreadsheet |-> "application/vnd.oasis.opendocument.spreadsheet",
     openDocumentPresentation |-> "application/vnd.oasis.opendocument.presentation",
     octetStream |-> "application/octet-stream",
     formUrlencoded |-> "application/x-www-form-urlencoded",
     multipartFormData |-> "multipart/form-data", graphql |-> "application/graphql",
     graphqlJson |-> "application/graphql+json", ldJson |-> "application/ld+json",
     manifestJson |-> "application/manifest+json", wasm |-> "application/wasm",
     protobuf |-> "application/x-protobuf", messagePack |-> "application/msgpack",
     bson |-> "application/bson", cbor |-> "application/cbor",
     yaml |-> "application/x-yaml", toml |-> "application/toml", ini |-> "text/plain",
     sql |-> "application/sql", geoJson |-> "application/geo+json",
     topoJson |-> "application/topo+json", unknown |-> "application/octet-stream"]

IMAGE_MIME_TYPES ==
    [jpeg |-> "image/jpeg", png |-> "image/png", gif |-> "image/gif",
     webp |-> "image/webp", svg |-> "image/svg+xml", ico |-> "image/x-icon",
     bmp |-> "image/bmp", tiff |-> "image/tiff", avif |-> "image/avif",
     heic |-> "image/heic", heif |-> "image/heif", jp2 |-> "image/jp2",
     jxr |-> "image/jxr", apng |-> "image/apng", av1 |-> "image/av1"]

AUDIO_MIME_TYPES ==
    [mp3 |-> "audio/mpeg", wav |-> "audio/wav", ogg |-> "audio/ogg", flac |-> "audio/flac",
     aac |-> "audio/aac", webm |-> "audio/webm", m4a |-> "audio/mp4",
     opus |-> "audio/opus", midi |-> "audio/midi", aiff |-> "audio/aiff"]

VIDEO_MIME_TYPES ==
    [mp4 |-> "video/mp4", webm |-> "video/webm", ogg |-> "video/ogg",
     avi |-> "video/x-msvideo", mov |-> "video/quicktime", wmv |-> "video/x-ms-wmv",
     flv |-> "video/x-flv", threeGp |-> "video/3gpp", mkv |-> "video/x-matroska",
     m4v |-> "video/x-m4v", h264 |-> "video/h264", h265 |-> "video/h265",
     vp8 |-> "video/vp8", vp9 |-> "video/vp9", av1 |-> "video/av1"]

FONT_MIME_TYPES ==
    [woff |-> "font/woff", woff2 |-> "font/woff2", ttf |-> "font/ttf", otf |-> "font/otf",
     eot |-> "application/vnd.ms-fontobject", collection |-> "font/collection"]

MODEL_MIME_TYPES ==
    [gltf |-> "model/gltf+json", glb |-> "model/gltf-binary", obj |-> "text/plain",
     stl |-> "model/stl", ply |-> "model/ply", threeDs |-> "application/x-3ds",
     fbx |-> "application/octet-stream", dae |-> "model/vnd.collada+xml"]

MULTIPART_MIME_TYPES ==
    [formData |-> "multipart/form-data", mixed |-> "multipart/mixed",
     alternative |-> "multipart/alternative", related |-> "multipart/related",
     digest |-> "multipart/digest", parallel |-> "multipart/parallel",
     report |-> "multipart/report", signed |-> "multipart/signed",
     encrypted |-> "multipart/encrypted", byteRanges |-> "multipart/byteranges"]

MESSAGE_MIME_TYPES ==
    [rfc822 |-> "message/rfc822", partial |-> "message/partial",
     externalBody |-> "message/external-body", http |-> "message/http",
     dispositionNotification |-> "message/disposition-notification",
     global |-> "message/global",
     globalDeliveryStatus |-> "message/global-delivery-status",
     globalDispositionNotification |-> "message/global-disposition-notification",
     report |-> "message/report", sHttp |-> "message/s-http"]

\* { ...TEXT_MIME_TYPES, ..., ...MESSAGE_MIME_TYPES, text: ..., message: ... }: of
\* two groups with the same key the later one gives the value
MIME_TYPES ==
    Spread(Spread(Spread(Spread(Spread(Spread(Spread(Spread(
        TEXT_MIME_TYPES, APPLICATION_MIME_TYPES), IMAGE_MIME_TYPES), AUDIO_MIME_TYPES),
        VIDEO_MIME_TYPES), FONT_MIME_TYPES), MODEL_MIME_TYPES), MULTIPART_MIME_TYPES),
        Spread(MESSAGE_MIME_TYPES,
               [text |-> TEXT_MIME_TYPES, application |-> APPLICATION_MIME_TYPES,
                image |-> IMAGE_MIME_TYPES, audio |-> AUDIO_MIME_TYPES,
                video |-> VIDEO_MIME_TYPES, font |-> FONT_MIME_TYPES,
                model |-> MODEL_MIME_TYPES, multipart |-> MULTIPART_MIME_TYPES,
                message |-> MESSAGE_MIME_TYPES]))

\* the entries of getExtension's extensionMap, in the order of the object literal
extensionMap ==
    << <<MIME_TYPES.plain, <<"t", "x", "t">>>>,
       <<MIME_TYPES.html, <<"h", "t", "m", "l">>>>, <<MIME_TYPES.css, <<"c", "s", "s">>>>,
       <<MIME_TYPES.javascript, <<"j", "s">>>>, <<MIME_TYPES.typescript, <<"t", "s">>>>,
       <<MIME_TYPES.json, <<"j", "s", "o", "n">>>>, <<MIME_TYPES.xml, <<"x", "m", "l">>>>,
       <<MIME_TYPES.csv, <<"c", "s", "v">>>>, <<MIME_TYPES.markdown, <<"m", "d">>>>,
       <<MIME_TYPES.yaml, <<"y", "m", "l">>>>, <<MIME_TYPES.toml, <<"t", "o", "m", "l">>>>,
       <<MIME_TYPES.pdf, <<"p", "d", "f">>>>, <<MIME_TYPES.zip, <<"z", "i", "p">>>>,
       <<MIME_TYPES.gzip, <<"g", "z">>>>, <<MIME_TYPES.tar, <<"t", "a", "r">>>>,
       <<MIME_TYPES.sevenZip, <<"7", "z">>>>, <<MIME_TYPES.rar, <<"r", "a", "r">>>>,
       <<MIME_TYPES.word, <<"d", "o", "c", "x">>>>,
       <<MIME_TYPES.excel, <<"x", "l", "s", "x">>>>,
       <<MIME_TYPES.powerpoint, <<"p", "p", "t", "x">>>>,
       <<MIME_TYPES.openDocumentText, <<"o", "d", "t">>>>,
       <<MIME_TYPES.openDocumentSpreadsheet, <<"o", "d", "s">>>>,
       <<MIME_TYPES.openDocumentPresentation, <<"o", "d", "p">>>>,
       <<MIME_TYPES.jpeg, <<"j", "p", "g">>>>, <<MIME_TYPES.png, <<"p", "n", "g">>>>,
       <<MIME_TYPES.gif, <<"g", "i", "f">>>>, <<MIME_TYPES.webp, <<"w", "e", "b", "p">>>>,
       <<MIME_TYPES.svg, <<"s", "v", "g">>>>, <<MIME_TYPES.ico, <<"i", "c", "o">>>>,
       <<MIME_TYPES.bmp, <<"b", "m", "p">>>>, <<MIME_TYPES.tiff, <<"t", "i", "f", "f">>>>,
       <<MIME_TYPES.avif, <<"a", "v", "i", "f">>>>, <<MIME_TYPES.mp3, <<"m", "p", "3">>>>,
       <<MIME_TYPES.wav, <<"w", "a", "v">>>>, <<MIME_TYPES.ogg, <<"o", "g", "g">>>>,
       <<MIME_TYPES.flac, <<"f", "l", "a", "c">>>>, <<MIME_TYPES.aac, <<"a", "a", "c">>>>,
       <<MIME_TYPES.webm, <<"w", "e", "b", "m">>>>, <<MIME_TYPES.m4a, <<"m", "4", "a">>>>,
       <<MIME_TYPES.opus, <<"o", "p", "u", "s">>>>,
       <<MIME_TYPES.midi, <<"m", "i", "d", "i">>>>,
       <<MIME_TYPES.aiff, <<"a", "i", "f", "f">>>>, <<MIME_TYPES.mp4, <<"m", "p", "4">>>>,
       <<MIME_TYPES.mov, <<"m", "o", "v">>>>, <<MIME_TYPES.avi, <<"a", "v", "i">>>>,
       <<MIME_TYPES.wmv, <<"w", "m", "v">>>>, <<MIME_TYPES.flv, <<"f", "l", "v">>>>,
       <<MIME_TYPES.threeGp, <<"3", "g", "p">>>>, <<MIME_TYPES.mkv, <<"m", "k", "v">>>>,
       <<MIME_TYPES.m4v, <<"m", "4", "v">>>>, <<MIME_TYPES.woff, <<"w", "o", "f", "f">>>>,
       <<MIME_TYPES.woff2, <<"w", "o", "f", "f", "2">>>>,
       <<MIME_TYPES.ttf, <<"t", "t", "f">>>>, <<MIME_TYPES.otf, <<"o", "t", "f">>>>,
       <<MIME_TYPES.eot, <<"e", "o", "t">>>>, <<MIME_TYPES.gltf, <<"g", "l", "t", "f">>>>,
       <<MIME_TYPES.glb, <<"g", "l", "b">>>>, <<MIME_TYPES.stl, <<"s", "t", "l">>>>,
       <<MIME_TYPES.ply, <<"p", "l", "y">>>>, <<MIME_TYPES.threeDs, <<"3", "d", "s">>>>,
       <<MIME_TYPES.fbx, <<"f", "b", "x">>>>, <<MIME_TYPES.dae, <<"d", "a", "e">>>> >>

\* the entries of fromExtension's mimeTypeMap
mimeTypeMap ==
    << <<<<"t", "x", "t">>, MIME_TYPES.plain>>,
       <<<<"h", "t", "m", "l">>, MIME_TYPES.html>>, <<<<"h", "t", "m">>, MIME_TYPES.html>>,
       <<<<"c", "s", "s">>, MIME_TYPES.css>>, <<<<"j", "s">>, MIME_TYPES.javascript>>,
       <<<<"t", "s">>, MIME_TYPES.typescript>>,
       <<<<"j", "s", "o", "n">>, MIME_TYPES.json>>, <<<<"x", "m", "l">>, MIME_TYPES.xml>>,
       <<<<"c", "s", "v">>, MIME_TYPES.csv>>, <<<<"m", "d">>, MIME_TYPES.markdown>>,
       <<<<"y", "m", "l">>, MIME_TYPES.yaml>>, <<<<"y", "a", "m", "l">>, MIME_TYPES.yaml>>,
       <<<<"t", "o", "m", "l">>, MIME_TYPES.toml>>, <<<<"p", "d", "f">>, MIME_TYPES.pdf>>,
       <<<<"z", "i", "p">>, MIME_TYPES.zip>>, <<<<"g", "z">>, MIME_TYPES.gzip>>,
       <<<<"t", "a", "r">>, MIME_TYPES.tar>>, <<<<"7", "z">>, MIME_TYPES.sevenZip>>,
       <<<<"r", "a", "r">>, MIME_TYPES.rar>>, <<<<"d", "o", "c", "x">>, MIME_TYPES.word>>,
       <<<<"x", "l", "s", "x">>, MIME_TYPES.excel>>,
       <<<<"p", "p", "t", "x">>, MIME_TYPES.powerpoint>>,
       <<<<"o", "d", "t">>, MIME_TYPES.openDocumentText>>,
       <<<<"o", "d", "s">>, MIME_TYPES.openDocumentSpreadsheet>>,
       <<<<"o", "d", "p">>, MIME_TYPES.openDocumentPresentation>>,
       <<<<"j", "p", "g">>, MIME_TYPES.jpeg>>, <<<<"j", "p", "e", "g">>, MIME_TYPES.jpeg>>,
       <<<<"p", "n", "g">>, MIME_TYPES.png>>, <<<<"g", "i", "f">>, MIME_TYPES.gif>>,
       <<<<"w", "e", "b", "p">>, MIME_TYPES.webp>>, <<<<"s", "v", "g">>, MIME_TYPES.svg>>,
       <<<<"i", "c", "o">>, MIME_TYPES.ico>>, <<<<"b", "m", "p">>, MIME_TYPES.bmp>>,
       <<<<"t", "i", "f", "f">>, MIME_TYPES.tiff>>, <<<<"t", "i", "f">>, MIME_TYPES.tiff>>,
       <<<<"a", "v", "i", "f">>, MIME_TYPES.avif>>, <<<<"m", "p", "3">>, MIME_TYPES.mp3>>,
       <<<<"w", "a", "v">>, MIME_TYPES.wav>>, <<<<"o", "g", "g">>, MIME_TYPES.ogg>>,
       <<<<"f", "l", "a", "c">>, MIME_TYPES.flac>>, <<<<"a", "a", "c">>, MIME_TYPES.aac>>,
       <<<<"m", "4", "a">>, MIME_TYPES.m4a>>, <<<<"o", "p", "u", "s">>, MIME_TYPES.opus>>,
       <<<<"m", "i", "d", "i">>, MIME_TYPES.midi>>,
       <<<<"a", "i", "f", "f">>, MIME_TYPES.aiff>>, <<<<"m", "p", "4">>, MIME_TYPES.mp4>>,
       <<<<"m", "o", "v">>, MIME_TYPES.mov>>, <<<<"a", "v", "i">>, MIME_TYPES.avi>>,
       <<<<"w", "m", "v">>, MIME_TYPES.wmv>>, <<<<"f", "l", "v">>, MIME_TYPES.flv>>,
       <<<<"3", "g", "p">>, MIME_TYPES.threeGp>>, <<<<"m", "k", "v">>, MIME_TYPES.mkv>>,
       <<<<"m", "4", "v">>, MIME_TYPES.m4v>>, <<<<"w", "o", "f", "f">>, MIME_TYPES.woff>>,
       <<<<"w", "o", "f", "f", "2">>, MIME_TYPES.woff2>>,
       <<<<"t", "t", "f">>, MIME_TYPES.ttf>>, <<<<"o", "t", "f">>, MIME_TYPES.otf>>,
       <<<<"e", "o", "t">>, MIME_TYPES.eot>>, <<<<"g", "l", "t", "f">>, MIME_TYPES.gltf>>,
       <<<<"g", "l", "b">>, MIME_TYPES.glb>>, <<<<"o", "b", "j">>, MIME_TYPES.obj>>,
       <<<<"s", "t", "l">>, MIME_TYPES.stl>>, <<<<"p", "l", "y">>, MIME_TYPES.ply>>,
       <<<<"3", "d", "s">>, MIME_TYPES.threeDs>>, <<<<"f", "b", "x">>, MIME_TYPES.fbx>>,
       <<<<"d", "a", "e">>, MIME_TYPES.dae>> >>

Values(obj) == {obj[k] : k \in DOMAIN obj}

\* the union type MimeType: the values of the nine groups
MimeType ==
    UNION {Values(TEXT_MIME_TYPES), Values(APPLICATION_MIME_TYPES), Values(IMAGE_MIME_TYPES),
           Values(AUDIO_MIME_TYPES), Values(VIDEO_MIME_TYPES), Values(FONT_MIME_TYPES),
           Values(MODEL_MIME_TYPES), Values(MULTIPART_MIME_TYPES), Values(MESSAGE_MIME_TYPES)}

\* map[key] of an object literal written as the sequence of its entries: the
\* last entry with the key gives the value, undefined when there is none
Lookup(entries, key) ==
    LET hits == {i \in DOMAIN entries : entries[i][1] = key}
    IN  IF hits = {} THEN Null
        ELSE Some(entries[CHOOSE i \in hits : \A j \in hits : j <= i][2])

\* MimeTypeUtils.getExtension
getExtension(mimeType) == Lookup(extensionMap, mimeType)

\* MimeTypeUtils.fromExtension
fromExtension(extension) == Lookup(mimeTypeMap, ToLowerCase(extension))

\* a call of getExtension, recorded with its argument and the value it returns
getExtensionCall(s, mimeType) ==
    /\ Free(s)
    /\ started' = started + 1
    /\ calls' = [calls EXCEPT ![s] =
            Returned("getExtension", 0, [mimeType |-> mimeType], getExtension(mimeType), FALSE)]
    /\ UNCHANGED <<cats, nextId, nextRef, clock, issued, requests>>

\* a call of fromExtension, recorded with its argument and the value it returns
fromExtensionCall(s, extension) ==
    /\ Free(s)
    /\ started' = started + 1
    /\ calls' = [calls EXCEPT ![s] =
            Returned("fromExtension", 0, [extension |-> extension],
                     fromExtension(extension), FALSE)]
    /\ UNCHANGED <<cats, nextId, nextRef, clock, issued, requests>>

\* at most MaxRequests calls in the runs with endpoint requests
MoreRequests == started < MaxRequests

\* POST /cats requests and direct createCat and getCatById calls, one at a time
ApiNext ==
    \/ MoreRequests /\ \E s \in Slots, raw \in BodyInputs : createCatEndpoint(s, raw, 1)
    \/ MoreRequests /\ \E s \in Slots, data \in CreateInputs :
          StartCreate(s, data, 1) /\ Direct(s)
    \/ \E s \in Slots : CreateResume(s) /\ UNCHANGED requests
    \/ MoreRequests /\ \E s \in Slots, id \in FewIdInputs :
          StartGetById(s, id, 1) /\ Direct(s)
    \/ \E s \in Slots : GetByIdResume(s) /\ UNCHANGED requests

ApiSpec == Init /\ [][ApiNext]_vars

\* getAllCats calls and GET /cats requests against a store of SeedSize cats
\* that creates, updates and deletes change, one call at a time
ListNext ==
    \/ MoreRequests /\ \E s \in Slots, query \in ListQueries :
          StartGetAll(s, query, 1) /\ Direct(s)
    \/ MoreRequests /\ \E s \in Slots, raw \in QueryInputs : getAllCatsEndpoint(s, raw, 1)
    \/ \E s \in Slots : GetAllResume(s) /\ UNCHANGED requests
    \/ \E s \in Slots : GetAllResumeCount(s) /\ UNCHANGED requests
    \/ MoreRequests /\ \E s \in Slots, data \in ListCreateInputs :
          StartCreate(s, data, 1) /\ Direct(s)
    \/ \E s \in Slots : CreateResume(s) /\ UNCHANGED requests
    \/ MoreRequests /\ \E s \in Slots, id \in ListIdInputs, data \in ListUpdateInputs :
          StartUpdate(s, id, data, 1) /\ Direct(s)
    \/ \E s \in Slots : UpdateResume(s) /\ UNCHANGED requests
    \/ MoreRequests /\ \E s \in Slots, id \in ListIdInputs :
          StartDelete(s, id, 1) /\ Direct(s)
    \/ \E s \in Slots : DeleteResume(s) /\ UNCHANGED requests

ListSpec == SeededInit /\ [][ListNext]_vars

\* up to MaxInFlight of at most MaxRequests calls in flight together against
\* a store of SeedSize cats, resumed in any order
RaceNext ==
    \/ MoreRequests /\ \E s \in Slots, data \in RaceCreateInputs :
          StartCreate(s, data, MaxInFlight) /\ Direct(s)
    \/ \E s \in Slots : CreateResume(s) /\ UNCHANGED requests
    \/ MoreRequests /\ \E s \in Slots, id \in RaceIdInputs, data \in RaceUpdateInputs :
          StartUpdate(s, id, data, MaxInFlight) /\ Direct(s)
    \/ \E s \in Slots : UpdateResume(s) /\ UNCHANGED requests
    \/ \E s \in Slots : UpdateResumeScan(s) /\ UNCHANGED requests
    \/ MoreRequests /\ \E s \in Slots, id \in RaceIdInputs :
          StartDelete(s, id, MaxInFlight) /\ Direct(s)
    \/ \E s \in Slots : DeleteResume(s) /\ UNCHANGED requests
    \/ MoreRequests /\ \E s \in Slots, query \in RaceQueries :
          StartGetAll(s, query, MaxInFlight) /\ Direct(s)
    \/ \E s \in Slots : GetAllResume(s) /\ UNCHANGED requests
    \/ \E s \in Slots : GetAllResumeCount(s) /\ UNCHANGED requests

RaceSpec == SeededInit /\ [][RaceNext]_vars

\* the extensions fromExtension has an entry for, as written and in upper
\* case, and one it has none for
ExtensionInputs ==
    LET known == {mimeTypeMap[i][1] : i \in DOMAIN mimeTypeMap}
    IN  known \cup {[i \in 1..Len(e) |-> IF e[i] = "j" THEN "J" ELSE e[i]] : e \in known}
              \cup {<<"w", "e", "b", "m">>, <<"e", "x", "e">>}

\* calls of getExtension with every MIME type and of fromExtension
MimeNext ==
    \/ MoreRequests /\ \E s \in Slots, mimeType \in MimeType : getExtensionCall(s, mimeType)
    \/ MoreRequests /\ \E s \in Slots, extension \in ExtensionInputs :
          fromExtensionCall(s, extension)

MimeSpec == Init /\ [][MimeNext]_vars

(***************************************************************************)
(* Properties.                                                             *)
(***************************************************************************)
Done(s, op) == calls[s].pc = "done" /\ calls[s].op = op

Succeeded(s) == calls[s].err = "none"

NamesUnique(store) ==
    \A i, j \in 1..Len(store) :
        i # j => ToLowerCase(store[i].val.name) # ToLowerCase(store[j].val.name)

\* a stored cat, other than the one call s returned, has this name ignoring case
OtherCatNamed(s, name) ==
    \E i \in 1..Len(cats) :
        /\ cats[i].key # calls[s].id
        /\ ToLowerCase(cats[i].val.name) = ToLowerCase(name)

\* C1: after createCat, updateCat and deleteCat calls run one at a time, no
\* two stored cats have names equal ignoring case, also beyond 10 cats.
C1_NamesUniqueAfterSequentialCalls == NamesUnique(cats)

\* C2: a createCat of valid data whose name equals, ignoring case, the name
\* of a stored cat fails with CatConflictError and does not call create.
C2_DuplicateCreateFailsWithConflict ==
    \A s \in Slots :
        (/\ Done(s, "createCat")
         /\ validateCatData(calls[s].data) = Ok
         /\ OtherCatNamed(s, calls[s].data.name))
        => (calls[s].err = "CatConflictError" /\ ~calls[s].wrote)

\* C3: with calls suspended only at their awaits, two createCat calls in
\* flight together with names equal ignoring case never both store a cat,
\* and the names of the stored cats stay unique.
C3_ConcurrentCreatesNeverBothStore ==
    /\ \A s, r \in Slots :
          (/\ s # r
           /\ Done(s, "createCat") /\ Succeeded(s)
           /\ Done(r, "createCat") /\ Succeeded(r)
           /\ calls[s].id \in Keys(cats) /\ calls[r].id \in Keys(cats))
          => ToLowerCase(calls[s].data.name) # ToLowerCase(calls[r].data.name)
    /\ NamesUnique(cats)

HandlerStatus(c) ==
    IF c.op = "createCat" THEN createCatHandlerStatus(c.err)
    ELSE updateCatHandlerStatus(c.err, c.ret)

\* C4: a create or update rejected for a duplicate name is answered 409;
\* 400 answers only validation failures and 404 only a missing id.
C4_DuplicateNameAnswered409 ==
    \A s \in Slots :
        (Done(s, "createCat") \/ Done(s, "updateCat")) =>
            /\ calls[s].cause = "duplicate" => HandlerStatus(calls[s]) = Some(Conflict)
            /\ HandlerStatus(calls[s]) = Some(BadRequest) => calls[s].cause = "invalid"
            /\ HandlerStatus(calls[s]) = Some(NotFound) => calls[s].id \notin Keys(cats)

\* a field present in the partial update that createCat's rule for it rejects
CreateRuleRejects(data) ==
    \/ Has(data, "name") /\ validateCatName(data.name) # Ok
    \/ Has(data, "age") /\ validateCatAge(data.age) # Ok
    \/ Has(data, "breed") /\ validateCatBreed(data.breed) # Ok
    \/ Has(data, "color") /\ validateCatColor(data.color) # Ok

\* C5: updateCat on an existing id with a field createCat would reject
\* fails with CatValidationError and does not call update.
C5_UpdateRevalidatesEveryField ==
    \A s \in Slots :
        (/\ Done(s, "updateCat")
         /\ calls[s].cause # "missing"
         /\ CreateRuleRejects(calls[s].data))
        => (calls[s].err = "CatValidationError" /\ ~calls[s].wrote)

WithinBounds(cat) ==
    /\ Len(cat.name) >= 1 /\ Len(cat.name) <= NameMaxLength
    /\ NumberIsInteger(cat.age) /\ cat.age.n >= AgeMin /\ cat.age.n <= AgeMax
    /\ Len(cat.breed) >= 1 /\ Len(cat.breed) <= BreedMaxLength
    /\ Len(cat.color) >= 1 /\ Len(cat.color) <= ColorMaxLength

\* C6: every stored cat has name, age, breed and color within their bounds,
\* and no input with a field createCat's rules reject reaches create or update.
C6_StoredCatsWithinBounds ==
    /\ \A i \in 1..Len(cats) : WithinBounds(cats[i].val)
    /\ \A s \in Slots :
          ((Done(s, "createCat") \/ Done(s, "updateCat")) /\ calls[s].wrote)
          => ~CreateRuleRejects(calls[s].data)

\* C7: assigning to a field of an object the repository returned does not
\* change the stored entity.
C7_ReturnedEntityIsACopy ==
    [][(\E s \in Slots, a \in Assignments : AssignToReturned(s, a[1], a[2]))
         => cats' = cats]_vars

\* C8: every stored cat has updatedAt >= createdAt.
C8_UpdatedAtNotBeforeCreatedAt ==
    \A i \in 1..Len(cats) : cats[i].val.updatedAt >= cats[i].val.createdAt

\* C9: createdAt and updatedAt of a stored cat are readings of the clock,
\* never values from the input, and createdAt never changes.
C9_TimestampsAssignedBySystem ==
    [][/\ \A i \in 1..Len(cats') :
             /\ cats'[i].val.createdAt \in 0..clock'
             /\ cats'[i].val.updatedAt \in 0..clock'
       /\ \A i \in 1..Len(cats), j \in 1..Len(cats') :
             cats[i].key = cats'[j].key => cats'[j].val.createdAt = cats[i].val.createdAt]_vars

\* C10: a successful createCat returns an id no earlier createCat returned,
\* also when the earlier cat has been deleted since.
C10_IdsNeverReused ==
    /\ \A i, j \in 1..Len(issued) : i # j => issued[i] # issued[j]
    /\ \A s \in Slots :
          (Done(s, "createCat") /\ Succeeded(s)) =>
              Cardinality({i \in 1..Len(issued) : issued[i] = calls[s].id}) = 1

\* a createCat has succeeded after the cat of an earlier one was deleted
C10_CreatedAfterDelete ==
    \E s \in Slots :
        /\ Done(s, "createCat") /\ Succeeded(s)
        /\ issued[Len(issued)] = calls[s].id
        /\ \E i \in 1..(Len(issued) - 1) : issued[i] \notin Keys(cats)

\* the ids create has assigned
Issued == {issued[i] : i \in 1..Len(issued)}

\* the fields of the cat stored under a present id
Stored(store, id) == findById(store, id)[1].val

\* C11: the cat a successful createCat returns has createdAt equal to
\* updatedAt, whatever the clock does between its two readings.
C11_CreatedAtEqualsUpdatedAt ==
    \A s \in Slots :
        (Done(s, "createCat") /\ Succeeded(s)) =>
            calls[s].ret[1].val.createdAt = calls[s].ret[1].val.updatedAt

\* C12: a getCatById, updateCat or deleteCat that completes for an id that is
\* not in the store: getCatById returns null and throws nothing, updateCat
\* and deleteCat throw CatNotFoundError and the store stays as it is.
C12_MissingIdOutcome ==
    [][\A s \in Slots :
          (/\ calls[s].op \in {"getCatById", "updateCat", "deleteCat"}
           /\ calls[s].pc # "done" /\ calls'[s].pc = "done"
           /\ calls[s].id \notin Keys(cats))
          => /\ cats' = cats
             /\ IF calls[s].op = "getCatById"
                THEN calls'[s].err = "none" /\ calls'[s].ret = Null
                ELSE calls'[s].err = "CatNotFoundError"]_vars

\* getCatById has returned null for an id whose cat was deleted
C12_GotNullForDeletedId ==
    \E s \in Slots :
        /\ Done(s, "getCatById") /\ Succeeded(s) /\ calls[s].ret = Null
        /\ calls[s].id \in Issued /\ calls[s].id \notin Keys(cats)

\* a deleteCat completes for an id whose cat an earlier deleteCat removed
SecondDeleteCompletes(s) ==
    /\ calls[s].pc = "delete_await_findById" /\ calls'[s].pc = "done"
    /\ calls[s].id \in Issued /\ calls[s].id \notin Keys(cats)

\* C13 as stated: a second deleteCat(id) returns false, throws nothing and
\* leaves the store unchanged.
C13_SecondDeleteReturnsFalse ==
    [][\A s \in Slots :
          SecondDeleteCompletes(s) =>
              /\ calls'[s].err = "none" /\ calls'[s].ret = Some(FALSE)
              /\ cats' = cats]_vars

\* C13: a second deleteCat(id) throws CatNotFoundError, returns nothing and
\* leaves the store unchanged.
C13_SecondDeleteThrowsNotFound ==
    [][\A s \in Slots :
          SecondDeleteCompletes(s) =>
              /\ calls'[s].err = "CatNotFoundError" /\ calls'[s].ret = Null
              /\ cats' = cats]_vars

\* a deleteCat has thrown for an id whose cat was deleted before
C13_DeletedTwice ==
    \E s \in Slots :
        /\ Done(s, "deleteCat") /\ calls[s].err = "CatNotFoundError"
        /\ calls[s].id \in Issued /\ calls[s].id \notin Keys(cats)

\* C16: a successful updateCat(id, {isAdopted: v}) sets isAdopted of that cat
\* to v, changes no other field of it but updatedAt, and changes no other cat.
C16_AdoptionUpdateFrame ==
    [][\A s \in Slots, v \in BOOLEAN :
          (/\ calls[s].op = "updateCat" /\ calls[s].data = [isAdopted |-> v]
           /\ calls[s].pc # "done" /\ calls'[s].pc = "done"
           /\ calls'[s].err = "none" /\ calls'[s].ret # Null)
          => /\ Keys(cats') = Keys(cats)
             /\ \A k \in Keys(cats) :
                   IF k = calls[s].id
                   THEN /\ DOMAIN Stored(cats', k) = DOMAIN Stored(cats, k)
                        /\ Stored(cats', k).isAdopted = v
                        /\ \A f \in DOMAIN Stored(cats, k) \ {"isAdopted", "updatedAt"} :
                              Stored(cats', k)[f] = Stored(cats, k)[f]
                   ELSE Stored(cats', k) = Stored(cats, k)]_vars

\* an updateCat of isAdopted alone has succeeded on a cat that was not adopted
C16_AdoptedByUpdate ==
    \E s \in Slots :
        /\ Done(s, "updateCat") /\ Succeeded(s) /\ calls[s].ret # Null
        /\ calls[s].data = [isAdopted |-> TRUE]
        /\ calls[s].id \in Keys(cats) /\ Stored(cats, calls[s].id).isAdopted

\* C17: a successful updateCat leaves the cat with an updatedAt strictly
\* greater than the one it had before the call, also when the clock has not
\* advanced since.
C17_UpdatedAtStrictlyIncreases ==
    [][\A s \in Slots :
          (/\ calls[s].op = "updateCat"
           /\ calls[s].pc # "done" /\ calls'[s].pc = "done"
           /\ calls'[s].err = "none" /\ calls'[s].ret # Null)
          => calls'[s].ret[1].val.updatedAt > Stored(cats, calls[s].id).updatedAt]_vars

\* the page and the limit a query asks for
PageOf(query) == IF Has(query, "page") THEN query.page ELSE 1

LimitOf(query) == IF Has(query, "limit") THEN query.limit ELSE 10

\* a cat passes the filter of a query: its breed holds the query's breed
\* ignoring case (no breed, or an empty one, passes every cat) and its
\* isAdopted is the query's (no isAdopted passes every cat)
MatchesFilter(e, query) ==
    /\ (Has(query, "breed") /\ Len(query.breed) > 0)
          => Includes(ToLowerCase(e.val.breed), ToLowerCase(query.breed))
    /\ Has(query, "isAdopted") => e.val.isAdopted = query.isAdopted

\* the filtered list, in insertion order
Filtered(store, query) ==
    LET passes(e) == MatchesFilter(e, query)
    IN  SelectSeq(store, passes)

\* pages 1..p of a query, one after the other
RECURSIVE PagesUpTo(_, _, _)
PagesUpTo(store, query, p) ==
    IF p = 0 THEN <<>>
    ELSE PagesUpTo(store, query, p - 1) \o findAll(store, Spread(query, [page |-> p]))

\* C14: getAllCats returns the cats at positions (page-1)*limit up to
\* page*limit-1 (counted from 0) of the filtered list that exist, in order,
\* so none for a page past the last one, and throws nothing; pages
\* 1..totalPages one after the other are the filtered list.
C14_PageIsSliceOfFilteredList ==
    \A s \in Slots :
        Done(s, "getAllCats") =>
            LET query == calls[s].data
                filtered == Filtered(cats, query)
                first == (PageOf(query) - 1) * LimitOf(query)
                last == PageOf(query) * LimitOf(query) - 1
                n == Cardinality({p \in first..last : p < Len(filtered)})
                got == calls[s].ret[1].cats
            IN  /\ Succeeded(s)
                /\ Len(got) = n
                /\ \A k \in 1..n : got[k] = filtered[first + k]
                /\ PagesUpTo(cats, query, calls[s].ret[1].pagination.totalPages) = filtered

\* getAllCats has returned a last page that is cut off, of a filter that
\* some cats pass and some do not
C14_CutOffLastPage ==
    \E s \in Slots :
        /\ Done(s, "getAllCats") /\ Succeeded(s)
        /\ PageOf(calls[s].data) > 1
        /\ Len(calls[s].ret[1].cats) \in 1..(LimitOf(calls[s].data) - 1)
        /\ Len(Filtered(cats, calls[s].data)) \in 1..(Len(cats) - 1)

\* C15: getAllCats reports as total the number of stored cats that pass the
\* query's filter and as totalPages the least number of pages of limit cats
\* that hold them, 0 when none passes; the page asked for changes neither.
C15_TotalAndTotalPages ==
    \A s \in Slots :
        Done(s, "getAllCats") =>
            LET query == calls[s].data
                limit == LimitOf(query)
                pagination == calls[s].ret[1].pagination
                matching == Cardinality({i \in 1..Len(cats) : MatchesFilter(cats[i], query)})
            IN  /\ pagination.total = matching
                /\ pagination.totalPages >= 0
                /\ pagination.totalPages * limit >= matching
                /\ (pagination.totalPages - 1) * limit < matching
                /\ matching = 0 => pagination.totalPages = 0
                /\ \A p \in ListPages :
                      /\ count(cats, Spread(query, [page |-> p])) = pagination.total
                      /\ MathCeilOfQuotient(count(cats, Spread(query, [page |-> p])), limit)
                            = pagination.totalPages

\* getAllCats has reported, for a page after the first, a total that is
\* less than the number of cats and not a multiple of the limit
C15_PartialLastPageCounted ==
    \E s \in Slots :
        /\ Done(s, "getAllCats") /\ Succeeded(s)
        /\ PageOf(calls[s].data) > 1
        /\ calls[s].ret[1].pagination.total \in 1..(Len(cats) - 1)
        /\ calls[s].ret[1].pagination.total % LimitOf(calls[s].data) # 0
        /\ calls[s].ret[1].pagination.totalPages > 1

\* C18 as stated: the cat findById (so getCatById) returns for the id of a
\* successful createCat has name, age, breed and color equal to the input,
\* and isAdopted false when the input did not set it.
C18_RoundTripEqualsInput ==
    \A s \in Slots :
        (Done(s, "createCat") /\ Succeeded(s)) =>
            LET input == IF requests[s] # Null THEN requests[s][1] ELSE calls[s].data
                got == findById(cats, calls[s].id)
            IN  /\ got # Null
                /\ got[1].val.name = input.name
                /\ got[1].val.age = input.age
                /\ got[1].val.breed = input.breed
                /\ got[1].val.color = input.color
                /\ ~Has(input, "isAdopted") =>
                      (Has(got[1].val, "isAdopted") /\ got[1].val.isAdopted = FALSE)

\* C18: the same, with name, breed and color of a request's input compared
\* after their leading and trailing white space is removed.
C18_RoundTripEqualsTrimmedInput ==
    \A s \in Slots :
        (Done(s, "createCat") /\ Succeeded(s)) =>
            LET sent == requests[s] # Null
                input == IF sent THEN requests[s][1] ELSE calls[s].data
                got == findById(cats, calls[s].id)
            IN  /\ got # Null
                /\ got[1].val.name = (IF sent THEN Trim(input.name) ELSE input.name)
                /\ got[1].val.age = input.age
                /\ got[1].val.breed = (IF sent THEN Trim(input.breed) ELSE input.breed)
                /\ got[1].val.color = (IF sent THEN Trim(input.color) ELSE input.color)
                /\ ~Has(input, "isAdopted") =>
                      (Has(got[1].val, "isAdopted") /\ got[1].val.isAdopted = FALSE)

\* a request without isAdopted, its name sent with spaces around it, has
\* created a cat
C18_CreatedFromPaddedBody ==
    \E s \in Slots :
        /\ Done(s, "createCat") /\ Succeeded(s)
        /\ requests[s] # Null /\ ~Has(requests[s][1], "isAdopted")
        /\ requests[s][1].name # Trim(requests[s][1].name)
        /\ calls[s].id \in Keys(cats)

\* C19: createCat throws nothing but CatValidationError; it rejects, without
\* calling create, every age that is not an integer from 0 to 30 and every
\* name longer than 50; and with the other fields valid and the name free it
\* accepts every age that is an integer from 0 to 30.
C19_AgeAndNameBoundaries ==
    \A s \in Slots :
        Done(s, "createCat") =>
            LET data == calls[s].data
                ageInRange == ~data.age.half /\ data.age.n \in 0..30
                rejected == calls[s].err = "CatValidationError" /\ ~calls[s].wrote
            IN  /\ ~Succeeded(s) => rejected
                /\ ~ageInRange => rejected
                /\ Len(data.name) > 50 => rejected
                /\ (/\ ageInRange
                    /\ validateCatName(data.name) = Ok
                    /\ validateCatBreed(data.breed) = Ok
                    /\ validateCatColor(data.color) = Ok
                    /\ ~OtherCatNamed(s, data.name))
                   => Succeeded(s)

\* a cat of age 30 is stored and a createCat of age 31 has been rejected
C19_Age30StoredAge31Rejected ==
    /\ \E i \in 1..Len(cats) : cats[i].val.age = Num(30)
    /\ \E s \in Slots :
          /\ Done(s, "createCat") /\ calls[s].data.age = Num(31)
          /\ calls[s].err = "CatValidationError"

C21_IdIsTheKey ==
    /\ \A i \in 1..Len(cats) : cats[i].val.id = cats[i].key
    /\ \A s \in Slots :
          (Done(s, "updateCat") /\ Succeeded(s) /\ calls[s].ret # Null) =>
              /\ calls[s].ret[1].key = calls[s].id
              /\ calls[s].ret[1].val.id = calls[s].id
              /\ calls[s].id \in Keys(cats) /\ Stored(cats, calls[s].id).id = calls[s].id

\* an updateCat whose partial update carries another id has succeeded
C21_UpdatedWithOtherId ==
    \E s \in Slots :
        /\ Done(s, "updateCat") /\ Succeeded(s) /\ calls[s].ret # Null
        /\ Has(calls[s].data, "id") /\ calls[s].data.id # calls[s].id

\* call s finishes in this step
Completes(s, op) ==
    calls[s].op = op /\ calls[s].pc \notin {"idle", "done"} /\ calls'[s].pc = "done"

\* a createCat that validation rejects finishes in the step that starts it
RejectedAtStart(s) ==
    /\ calls[s].pc \in {"idle", "done"} /\ calls[s] # calls'[s]
    /\ calls'[s].pc = "done" /\ calls'[s].op = "createCat"

\* C22: in every step the set of ids changes by at most one id; an id is
\* added only by a createCat that succeeds, which adds exactly its new id; an
\* id is removed only by a deleteCat that calls delete(id), which removes
\* exactly id and returns true exactly when id was present; every other step
\* (update, findById, findAll, count) leaves the set of ids as it was.
C22_IdSetFrame ==
    [][LET added == Keys(cats') \ Keys(cats)
           removed == Keys(cats) \ Keys(cats')
       IN  /\ Cardinality(added) + Cardinality(removed) <= 1
           /\ Len(cats') = Cardinality(Keys(cats'))
           /\ added # {} =>
                 \E s \in Slots : Completes(s, "createCat") /\ calls'[s].err = "none"
           /\ removed # {} =>
                 \E s \in Slots : Completes(s, "deleteCat") /\ calls'[s].err = "none"
           /\ \A s \in Slots :
                 (Completes(s, "createCat") /\ calls'[s].err = "none") =>
                     (added = {calls'[s].id} /\ removed = {})
           /\ \A s \in Slots :
                 (Completes(s, "deleteCat") /\ calls'[s].err = "none") =>
                     /\ added = {}
                     /\ removed = {calls[s].id} \cap Keys(cats)
                     /\ calls'[s].ret = Some(calls[s].id \in Keys(cats))]_vars

\* a deleteCat has called delete(id) for an id another call had removed, and
\* returned false
C22_DeleteReturnedFalse ==
    \E s \in Slots :
        /\ Done(s, "deleteCat") /\ Succeeded(s) /\ calls[s].ret = Some(FALSE)
        /\ calls[s].id \notin Keys(cats)

\* the fields of a creation input that break their rule
OffendingFields(data) ==
    {f \in {"name", "age", "breed", "color"} :
        (CASE f = "name" -> validateCatName(data.name)
           [] f = "age" -> validateCatAge(data.age)
           [] f = "breed" -> validateCatBreed(data.breed)
           [] f = "color" -> validateCatColor(data.color)) # Ok}

\* C23: the CatValidationError of a createCat whose input breaks the rules of
\* several fields names every one of these fields.
C23_EveryOffendingFieldNamed ==
    \A s \in Slots :
        (Done(s, "createCat") /\ calls[s].cause = "invalid") =>
            OffendingFields(calls[s].data) \subseteq FieldsNamed(validateCatData(calls[s].data))

\* C24: an updateCat of an existing cat with a valid new name fails, without
\* writing, exactly when another stored cat has that name ignoring case; it
\* succeeds when no other cat has it, as when only the case of its own name
\* changes.
C24_UpdateNameConflict ==
    \A s \in Slots :
        (/\ Done(s, "updateCat")
         /\ calls[s].cause # "missing"
         /\ Has(calls[s].data, "name")
         /\ validateUpdate(calls[s].data) = Ok)
        => IF OtherCatNamed(s, calls[s].data.name)
           THEN ~Succeeded(s) /\ ~calls[s].wrote
           ELSE Succeeded(s)

\* the position of a stored object in the store
PositionOf(store, e) == CHOOSE i \in 1..Len(store) : store[i] = e

\* C25: with the query of a getAllCats call, findAll asked for one page that
\* holds every cat returns a stored cat exactly when the cat passes the
\* filter, each once and in insertion order, and count returns their number.
C25_FilterPredicate ==
    \A s \in Slots :
        Done(s, "getAllCats") =>
            LET query == calls[s].data
                all == findAll(cats, Spread(query, [page |-> 1, limit |-> MaxLimit]))
            IN  /\ \A k \in 1..Len(all) :
                      \E i \in 1..Len(cats) : cats[i] = all[k]
                /\ \A i \in 1..Len(cats) :
                      MatchesFilter(cats[i], query) <=> (\E k \in 1..Len(all) : all[k] = cats[i])
                /\ \A k, l \in 1..Len(all) :
                      k < l => PositionOf(cats, all[k]) < PositionOf(cats, all[l])
                /\ count(cats, query) = Cardinality({i \in 1..Len(cats) : MatchesFilter(cats[i], query)})

\* getAllCats has been called with a breed filter written in another case
\* than the breeds stored, which some cats pass and some do not
C25_MixedCaseBreedFilter ==
    \E s \in Slots :
        /\ Done(s, "getAllCats") /\ Has(calls[s].data, "breed")
        /\ calls[s].data.breed # ToLowerCase(calls[s].data.breed)
        /\ \E i, j \in 1..Len(cats) :
              MatchesFilter(cats[i], calls[s].data) /\ ~MatchesFilter(cats[j], calls[s].data)

\* C26: the result of a GET /cats request without isAdopted counts in its
\* total the adopted and the non-adopted cats that pass the breed filter,
\* and its first page of at least as many cats holds them all.
C26_AbsentIsAdoptedNotFiltered ==
    \A s \in Slots :
        (/\ Done(s, "getAllCats")
         /\ requests[s] # Null /\ ~Has(requests[s][1], "isAdopted"))
        => LET breedOnly == IF Has(requests[s][1], "breed")
                            THEN [breed |-> requests[s][1].breed] ELSE <<>>
               passing == {i \in 1..Len(cats) : MatchesFilter(cats[i], breedOnly)}
           IN  /\ calls[s].ret[1].pagination.total = Cardinality(passing)
               /\ (calls[s].data.page = 1 /\ calls[s].data.limit >= Len(cats)) =>
                     Len(calls[s].ret[1].cats) = Cardinality(passing)

\* call s, a createCat, updateCat or deleteCat, ends in an error in this step
EndsInError(s) ==
    /\ \/ RejectedAtStart(s)
       \/ \E op \in {"createCat", "updateCat", "deleteCat"} : Completes(s, op)
    /\ calls'[s].err # "none"

\* C27: the step in which a createCat, updateCat or deleteCat ends in an error
\* leaves the store as it was and has called no writing repository method;
\* the store changes only in the last step of a call that returns, so no step
\* of a call that ends in an error has changed it.
C27_FailedCallLeavesStore ==
    [][/\ \A s \in Slots : EndsInError(s) => (cats' = cats /\ ~calls'[s].wrote)
       /\ cats' # cats =>
             \E s \in Slots :
                 /\ \E op \in {"createCat", "updateCat", "deleteCat"} : Completes(s, op)
                 /\ calls'[s].err = "none" /\ calls'[s].wrote]_vars

\* a createCat has passed validateCatData and failed at the name check, the
\* store holding the cats it held when the call began
C27_DuplicateRejected ==
    \E s \in Slots :
        /\ Done(s, "createCat") /\ calls[s].cause = "duplicate"
        /\ Len(cats) = SeedSize

\* C28: an updateCat that finishes after a deleteCat has removed its cat (the
\* cat was there at its existence check) stores nothing and returns null; no
\* step puts an id that was issued and removed back into the store.
C28_UpdateDoesNotResurrect ==
    [][/\ \A s \in Slots :
             (/\ Completes(s, "updateCat")
              /\ calls[s].found # Null
              /\ calls[s].id \notin Keys(cats))
             => /\ cats' = cats
                /\ calls'[s].err = "none" /\ calls'[s].ret = Null
       /\ \A id \in Issued : id \notin Keys(cats) => id \notin Keys(cats')]_vars

\* an updateCat has passed its existence check, a deleteCat has then removed
\* the cat, and the updateCat has finished
C28_UpdatedAfterDelete ==
    \E s, d \in Slots :
        /\ Done(s, "updateCat") /\ Succeeded(s) /\ calls[s].ret = Null
        /\ Done(d, "deleteCat") /\ calls[d].ret = Some(TRUE) /\ calls[d].id = calls[s].id
        /\ calls[s].id \in Issued /\ calls[s].id \notin Keys(cats)

\* C29: the cats array of every getAllCats result holds at most
\* pagination.total cats, also when the calls that ran between its findAll
\* and its count are createCat and deleteCat calls.
C29_PageWithinTotal ==
    \A s \in Slots :
        (/\ Done(s, "getAllCats") /\ Succeeded(s)
         /\ \A r \in Slots \ {s} : calls[r].op \in {"none", "createCat", "deleteCat"})
        => Len(calls[s].ret[1].cats) <= calls[s].ret[1].pagination.total

\* C30: when getExtension(m) has returned an extension e for a MIME type m,
\* fromExtension(e) returns m.
C30_ExtensionRoundTrip ==
    \A s, r \in Slots :
        (/\ Done(s, "getExtension") /\ calls[s].ret # Null
         /\ Done(r, "fromExtension") /\ calls[r].data.extension = calls[s].ret[1])
        => calls[r].ret = Some(calls[s].data.mimeType)

====
